---- MODULE Spec2Model ----
(***************************************************************************)
(* Finding Friends score tracker (src/src/App.jsx): the React component's  *)
(* state (the date-keyed session store and the New Game form), its event   *)
(* handlers, the scoring function calculateScores, and the statistics      *)
(* derived from the store (enhancedStats, totalsByPlayer, roleStats).      *)
(*                                                                         *)
(* Representation notes.                                                   *)
(*  - Calendar-date labels (Date.toDateString()) are day numbers 1, 2, ... *)
(*  - Player indexes are 0-based as in the source; players[i] of the       *)
(*    source is At(players, i) here.                                       *)
(*  - A score is a JavaScript number.  The losing branch stores            *)
(*    opponentScore * 1.5 / n unrounded, so a score is kept as an exact    *)
(*    multiple of 1/ScoreUnit point: Pts(x) is x whole points.             *)
(*  - A round's id (Date.now()) and its distribution text are display      *)
(*    data derived from the other fields and are not kept.                 *)
(*  - activeTab only selects which controls are shown; every control is    *)
(*    reachable from every tab, so it is not kept.                         *)
(*  - A handler's state update is followed by a render.  The render calls  *)
(*    getCurrent (lazy session creation) and roleStats; when roleStats     *)
(*    throws, the component is unmounted and handles nothing further.      *)
(***************************************************************************)
EXTENDS Integers, Sequences, FiniteSets, TLC

VARIABLES
    gameData,       \* date label -> [players, rounds, currentRound]
    selectedDate,   \* the date label shown
    today,          \* the calendar date read by todayLabel()
    mode,           \* "Normal" | "1v5"
    host,           \* index in players
    friends,        \* sequence of player indexes
    bid,
    opponentScore,
    mounted,        \* FALSE once a render has thrown (the React tree is unmounted)
    addLog,         \* history: how each addRound call so far ended
    events,         \* number of events handled so far
    reloads,        \* history: number of page loads after the first
    gamesTable,     \* the rows of the games table, in insertion order
    request,        \* history: what happened while the last request was served
    reply           \* what the last invoked Netlify function returned

vars == <<gameData, selectedDate, today, mode, host, friends, bid, opponentScore,
          mounted, addLog, events, reloads, gamesTable, request, reply>>

serverVars == <<gamesTable, request, reply>>

\* Before any function has been invoked.
noRequest == [handler |-> "none", thrown |-> "none", queries |-> 0, completed |-> FALSE]

noReply == [statusCode |-> 0, body |-> "none"]

\* The page has been loaded once and the database table is empty.
InitOutside ==
    /\ reloads = 0
    /\ gamesTable = <<>>
    /\ request = noRequest
    /\ reply = noReply

----------------------------------------------------------------------------
(* Bounds of the model *)

MaxEvents == 6
MaxDay == 2

----------------------------------------------------------------------------
(* Program constants *)

START_BID == 150
NO_BIDS_VALUE == 160

\* The unit of a stored score: 1/ScoreUnit point.  opponentScore * 1.5 / n with
\* n in 1..5 is an exact multiple of it.
ScoreUnit == 2 * 3 * 4 * 5

Pts(x) == x * ScoreUnit

Modes == {"Normal", "1v5"}

Range(s) == {s[i] : i \in 1..Len(s)}

At(s, i) == s[i + 1]

Max(a, b) == IF a > b THEN a ELSE b

Min(a, b) == IF a < b THEN a ELSE b

\* Math.round of the rational num/den (den > 0): the nearest integer, halves up.
MathRound(num, den) == (2 * num + den) \div (2 * den)

defaultPlayers ==
    <<"Player 1", "Player 2", "Player 3", "Player 4", "Player 5", "Player 6">>

defaultSession == [players |-> defaultPlayers, rounds |-> <<>>, currentRound |-> 1]

todayLabel == today

----------------------------------------------------------------------------
(* Session store helpers *)

\* getCurrent's lazy creation, as the render after a state change performs it:
\* a store that holds no session for the selected date gains a default one.
getCurrentMutantDropsOthers(gd, date) ==
    IF date \in DOMAIN gd
        THEN gd
        ELSE [d \in {date} |-> defaultSession]

getCurrent(gd, date) ==
    IF date \in DOMAIN gd
        THEN gd
        ELSE [d \in DOMAIN gd \cup {date} |-> IF d = date THEN defaultSession ELSE gd[d]]

\* updateCurrent(updater): the store with the selected date's session replaced by
\* updater(session); newSession is updater applied to Existing(gd, date).
Existing(gd, date) == IF date \in DOMAIN gd THEN gd[date] ELSE defaultSession

updateCurrent(gd, date, newSession) ==
    [d \in DOMAIN gd \cup {date} |-> IF d = date THEN newSession ELSE gd[d]]

\* onRename's updater: a copy of the roster with slot idx replaced.
RenameMutantRewritesRounds(s, idx, name) ==
    LET old == At(s.players, idx)
        sub(n) == IF n = old THEN name ELSE n
    IN  [s EXCEPT !.players = [@ EXCEPT ![idx + 1] = name],
                  !.rounds = [k \in 1..Len(@) |->
                                 [@[k] EXCEPT !.host = sub(@),
                                              !.players = [j \in 1..Len(@) |-> sub(@[j])]]]]

onRenameUpdater(s, idx, name) ==
    [s EXCEPT !.players = [@ EXCEPT ![idx + 1] = name]]

----------------------------------------------------------------------------
(* Scoring logic: calculateScores *)

winHostTeamMutantTieWins(opponentScoreArg, bidArg) == opponentScoreArg <= bidArg

winHostTeam(opponentScoreArg, bidArg) == opponentScoreArg < bidArg

\* scores = Object.fromEntries(players.map((p) => [p, 0]))
zeroScores(players) == [p \in Range(players) |-> 0]

friendNamesOf(players, friendIdxs) ==
    [k \in 1..Len(friendIdxs) |-> At(players, friendIdxs[k])]

teamSetOf(players, hostIdx, friendIdxs) ==
    {At(players, hostIdx)} \cup Range(friendNamesOf(players, friendIdxs))

opponentsOf(players, hostIdx, friendIdxs) ==
    SelectSeq(players, LAMBDA p : p \notin teamSetOf(players, hostIdx, friendIdxs))

\* 1v5, host wins: scores[hostName] = 400
oneVsFiveWin(players, hostIdx, opponentScoreArg) ==
    [zeroScores(players) EXCEPT ![At(players, hostIdx)] = Pts(400)]

\* each = (opponentScore * 1.5) / divisor; opponents.forEach((p) => (scores[p] = each))
opponentsShare(players, opponents, opponentScoreArg, divisor) ==
    [p \in Range(players) |->
        IF p \in Range(opponents)
            THEN (opponentScoreArg * 3 * ScoreUnit) \div (2 * divisor)
            ELSE 0]

\* Normal mode, host team wins: the split of distributable = 400 - opponentScore.
\* The assignments are made in the source's order, so a later one overwrites an
\* earlier one made under the same name.
normalWin(players, hostIdx, friendIdxs, opponentScoreArg) ==
    LET distributable == 400 - opponentScoreArg
        hostName == At(players, hostIdx)
        friendNames == friendNamesOf(players, friendIdxs)
        scores == zeroScores(players)
    IN  IF Len(friendNames) = 0
            THEN [scores EXCEPT ![hostName] = Pts(distributable)]
        ELSE IF Len(friendNames) = 1
            THEN LET s1 == [scores EXCEPT ![hostName] = Pts(MathRound(distributable * 3, 4))]
                 IN  [s1 EXCEPT ![friendNames[1]] = Pts(distributable) - s1[hostName]]
        ELSE LET hostShare == MathRound(distributable, 2)
                 friendShare == MathRound(distributable - hostShare, 2)
                 s1 == [scores EXCEPT ![hostName] = Pts(hostShare)]
                 s2 == [s1 EXCEPT ![friendNames[1]] = Pts(friendShare)]
             IN  [s2 EXCEPT ![friendNames[2]] = Pts(distributable - hostShare - friendShare)]

calculateScores(modeArg, players, hostIdx, friendIdxs, bidArg, opponentScoreArg) ==
    LET opponents == opponentsOf(players, hostIdx, friendIdxs)
    IN  IF modeArg = "1v5"
            THEN IF winHostTeam(opponentScoreArg, bidArg)
                    THEN [scores |-> oneVsFiveWin(players, hostIdx, opponentScoreArg),
                          winner |-> "Host"]
                    ELSE [scores |-> opponentsShare(players, opponents, opponentScoreArg, 5),
                          winner |-> "Opponents"]
            ELSE IF winHostTeam(opponentScoreArg, bidArg)
                    THEN [scores |-> normalWin(players, hostIdx, friendIdxs, opponentScoreArg),
                          winner |-> "Host Team"]
                    ELSE [scores |-> opponentsShare(players, opponents, opponentScoreArg,
                                                    Len(opponents)),
                          winner |-> "Opponents"]

----------------------------------------------------------------------------
(* addRound's pieces *)

\* Line 237: adding is allowed on today's date only.
dateLockedMutantNever(date, todayArg) == FALSE

dateLockedMutantAlways(date, todayArg) == TRUE

dateLocked(date, todayArg) == date # todayArg

\* friends.filter((i) => i !== host)
friendIdxsOf(friendsArg, hostArg) == SelectSeq(friendsArg, LAMBDA i : i # hostArg)

\* The quick validation of addRound: TRUE when one of its three returns is taken.
invalidRoundMutantNoScoreCheck(modeArg, friendIdxs, bidArg, opponentScoreArg) ==
    \/ modeArg = "Normal" /\ Len(friendIdxs) > 2
    \/ bidArg < 80 /\ bidArg # NO_BIDS_VALUE

invalidRoundMutantNoBidCheck(modeArg, friendIdxs, bidArg, opponentScoreArg) ==
    \/ modeArg = "Normal" /\ Len(friendIdxs) > 2
    \/ opponentScoreArg < 0 \/ opponentScoreArg > 400

invalidRound(modeArg, friendIdxs, bidArg, opponentScoreArg) ==
    \/ modeArg = "Normal" /\ Len(friendIdxs) > 2
    \/ bidArg < 80 /\ bidArg # NO_BIDS_VALUE
    \/ opponentScoreArg < 0 \/ opponentScoreArg > 400

\* The round record built in addRound's updater (s is the session being updated).
newRound(s, date, modeArg, players, hostArg, friendIdxs, bidArg, opponentScoreArg) ==
    LET result == calculateScores(modeArg, players, hostArg, friendIdxs, bidArg,
                                  opponentScoreArg)
    IN  [round |-> s.currentRound,
         mode |-> modeArg,
         players |-> players,
         host |-> At(players, hostArg),
         friends |-> friendNamesOf(players, friendIdxs),
         bid |-> bidArg,
         opponentScore |-> opponentScoreArg,
         scores |-> result.scores,
         winner |-> result.winner,
         date |-> date]

\* addRound's updater: append the round, advance the counter.
addRoundUpdaterMutantSkips(s, r) ==
    [s EXCEPT !.rounds = Append(@, r), !.currentRound = @ + 2]

addRoundUpdaterMutantPrepends(s, r) ==
    [s EXCEPT !.rounds = <<r>> \o @, !.currentRound = @ + 1]

addRoundUpdater(s, r) ==
    [s EXCEPT !.rounds = Append(@, r), !.currentRound = @ + 1]

\* roleStats (lines 292-311) indexes rs, built from the current roster, by every name
\* of every stored round of the selected session: a name missing from the roster is
\* a TypeError thrown while rendering.
roleStatsThrows(gd, date) ==
    \E k \in 1..Len(gd[date].rounds) :
        LET r == gd[date].rounds[k]
        IN  (Range(r.players) \cup {r.host} \cup Range(r.friends))
                \ Range(gd[date].players) # {}

----------------------------------------------------------------------------
(* Inputs of the handlers *)

Days == 1..MaxDay

\* Options picked in the host <select>, friend buttons pressed (three players who
\* are not host 0, so that a third selection happens), name fields edited.
HostInputs == {0, 1}

FriendInputs == {1, 2, 3}

RenameIdxInputs == {0, 1}

\* Texts typed into a name field: a fresh name and one another slot already has.
NameInputs == {"Ann", "Player 1"}

\* Values parseInt yields from the opponent-score field: below the range, inside it
\* (0, a tie with the starting bid, the top) and above it.
ScoreInputs == {-1, 0, START_BID, 400, 401}

----------------------------------------------------------------------------
(* Initial state: the useState initialisers *)

Init ==
    /\ today = 1
    /\ selectedDate = today
    /\ gameData = [d \in {today} |-> defaultSession]
    /\ mode = "Normal"
    /\ host = 0
    /\ friends = <<>>
    /\ bid = START_BID
    /\ opponentScore = 0
    /\ mounted = TRUE
    /\ addLog = <<>>
    /\ events = 0
    /\ InitOutside

\* Every handler runs in a mounted component; the model stops after MaxEvents events.
Handling ==
    /\ mounted
    /\ events < MaxEvents
    /\ events' = events + 1
    /\ UNCHANGED <<reloads, serverVars>>

formVars == <<mode, host, friends, bid, opponentScore>>

storeVars == <<gameData, selectedDate, addLog>>

----------------------------------------------------------------------------
(* Handlers *)

\* The system clock passes midnight.
ClockTick ==
    /\ events < MaxEvents
    /\ events' = events + 1
    /\ today < MaxDay
    /\ today' = today + 1
    /\ UNCHANGED <<gameData, selectedDate, formVars, mounted, addLog>>
    /\ UNCHANGED <<reloads, serverVars>>

\* The date <select>: its options are the stored dates.
SelectDate ==
    /\ Handling
    /\ \E d \in DOMAIN gameData :
        /\ d # selectedDate
        /\ selectedDate' = d
        /\ gameData' = getCurrent(gameData, d)
    /\ UNCHANGED <<today, formVars, mounted, addLog>>

\* The "Today" button: setSelectedDate(todayLabel()); the render that follows
\* creates the session through getCurrent when the store has none for it.
JumpToToday ==
    /\ Handling
    /\ selectedDate' = todayLabel
    /\ gameData' = getCurrent(gameData, todayLabel)
    /\ UNCHANGED <<today, formVars, mounted, addLog>>

\* A name field's onChange; the render that follows evaluates roleStats.
Rename ==
    /\ Handling
    /\ \E idx \in RenameIdxInputs, name \in NameInputs :
        /\ name # At(gameData[selectedDate].players, idx)
        /\ gameData' = updateCurrent(gameData, selectedDate,
                          onRenameUpdater(Existing(gameData, selectedDate), idx, name))
    /\ mounted' = ~roleStatsThrows(gameData', selectedDate)
    /\ UNCHANGED <<selectedDate, today, formVars, addLog>>

\* Line 405: setBid(e.target.value === "1v5" ? 200 : START_BID)
bidForModeMutantKeepsStart(m) == START_BID

bidForMode(m) == IF m = "1v5" THEN 200 ELSE START_BID

\* The mode <select>'s onChange.
SetMode ==
    /\ Handling
    /\ \E m \in Modes :
        /\ m # mode
        /\ mode' = m
        /\ friends' = <<>>
        /\ bid' = bidForMode(m)
    /\ UNCHANGED <<storeVars, today, host, opponentScore, mounted>>

\* The host <select>'s onChange.
SetHost ==
    /\ Handling
    /\ \E v \in HostInputs :
        /\ v # host
        /\ host' = v
        /\ friends' = SelectSeq(friends, LAMBDA i : i # v)
    /\ UNCHANGED <<storeVars, today, mode, bid, opponentScore, mounted>>

friendsAllowed == IF mode = "Normal" THEN 2 ELSE 0

toggleFriendNextMutantNoLimit(prev, i, allowed) ==
    IF \E k \in 1..Len(prev) : prev[k] = i
        THEN SelectSeq(prev, LAMBDA x : x # i)
        ELSE Append(prev, i)

toggleFriendNext(prev, i, allowed) ==
    LET next == IF \E k \in 1..Len(prev) : prev[k] = i
                    THEN SelectSeq(prev, LAMBDA x : x # i)
                    ELSE Append(prev, i)
    IN  IF Len(next) > allowed THEN SubSeq(next, 1, allowed) ELSE next

\* A friend button (disabled for the host and in 1v5 mode; toggleFriend returns
\* at once in the same cases).
ToggleFriend ==
    /\ Handling
    /\ \E i \in FriendInputs :
        /\ i # host
        /\ friendsAllowed # 0
        /\ friends' = toggleFriendNext(friends, i, friendsAllowed)
    /\ UNCHANGED <<storeVars, today, mode, host, bid, opponentScore, mounted>>

\* The bid buttons, each with its disabled condition as guard.
BidMinus ==
    /\ Handling
    /\ ~(mode = "1v5" \/ bid <= 80)
    /\ bid' = Max(80, bid - 5)
    /\ UNCHANGED <<storeVars, today, mode, host, friends, opponentScore, mounted>>

BidPlus ==
    /\ Handling
    /\ ~(mode = "1v5" \/ bid >= 150)
    /\ bid' = Min(150, bid + 5)
    /\ UNCHANGED <<storeVars, today, mode, host, friends, opponentScore, mounted>>

BidNoBids ==
    /\ Handling
    /\ mode # "1v5"
    /\ bid' = NO_BIDS_VALUE
    /\ UNCHANGED <<storeVars, today, mode, host, friends, opponentScore, mounted>>

BidReset ==
    /\ Handling
    /\ mode # "1v5"
    /\ bid' = START_BID
    /\ UNCHANGED <<storeVars, today, mode, host, friends, opponentScore, mounted>>

\* The opponent-score field's onChange: setOpponentScore(parseInt(value || "0", 10)).
SetOpponentScore ==
    /\ Handling
    /\ \E v \in ScoreInputs :
        /\ v # opponentScore
        /\ opponentScore' = v
    /\ UNCHANGED <<storeVars, today, mode, host, friends, bid, mounted>>

resetNewGameForm ==
    /\ mode' = "Normal"
    /\ host' = 0
    /\ friends' = <<>>
    /\ bid' = START_BID
    /\ opponentScore' = 0

ResetForm ==
    /\ Handling
    /\ resetNewGameForm
    /\ UNCHANGED <<storeVars, today, mounted>>

\* addRound: the date lock, the validation, then the append and the form reset.
\* addLog records which way the call ended.
AddRound ==
    /\ Handling
    /\ LET players == gameData[selectedDate].players
           friendIdxs == friendIdxsOf(friends, host)
           s == Existing(gameData, selectedDate)
       IN  IF dateLocked(selectedDate, todayLabel)
              THEN /\ addLog' = Append(addLog, "locked")
                   /\ UNCHANGED <<gameData, formVars>>
           ELSE IF invalidRound(mode, friendIdxs, bid, opponentScore)
              THEN /\ addLog' = Append(addLog, "invalid")
                   /\ UNCHANGED <<gameData, formVars>>
           ELSE /\ addLog' = Append(addLog, "added")
                /\ gameData' = updateCurrent(gameData, selectedDate,
                       addRoundUpdater(s, newRound(s, selectedDate, mode, players, host,
                                                   friendIdxs, bid, opponentScore)))
                /\ resetNewGameForm
    /\ UNCHANGED <<selectedDate, today, mounted>>

Next ==
    \/ ClockTick
    \/ SelectDate
    \/ JumpToToday
    \/ Rename
    \/ SetMode
    \/ SetHost
    \/ ToggleFriend
    \/ BidMinus
    \/ BidPlus
    \/ BidNoBids
    \/ BidReset
    \/ SetOpponentScore
    \/ ResetForm
    \/ AddRound

Spec == Init /\ [][Next]_vars

----------------------------------------------------------------------------
(* addRound on enumerated inputs.  The form and the selected session's roster are
   drawn from bounded sets standing for a form filled in by earlier events; the
   component then handles addRound (twice: the second call sees the reset form). *)

\* Rosters the name fields produce: the default one, ones with a renamed slot, and
\* one in which a slot was given the name of another.
RosterInputs ==
    {defaultPlayers,
     [defaultPlayers EXCEPT ![1] = "Ann"],
     [defaultPlayers EXCEPT ![2] = "Ann"],
     [defaultPlayers EXCEPT ![2] = "Player 1"]}

\* Bids: below the minimum, the minimum, the start value, one step under "No Bids",
\* "No Bids", and the 1v5 value.
BidInputs == {70, 75, 80, START_BID, 155, NO_BIDS_VALUE, 200}

\* Every integer opponent score of the range, and one beyond each end.
OpponentScoreInputs == (0 - 1)..401

\* Friend selections: none, one, two, three (one too many), and selections that
\* still hold the host's index.
FriendsInputs ==
    {<<>>, <<2>>, <<3, 2>>, <<2, 3, 4>>, <<0, 2>>, <<0, 2, 3>>, <<1, 2, 3, 4>>}

InitRound ==
    /\ today \in Days
    /\ selectedDate = 1
    /\ \E roster \in RosterInputs :
        gameData = [d \in {selectedDate} |-> [defaultSession EXCEPT !.players = roster]]
    /\ mode \in Modes
    /\ host \in HostInputs
    /\ friends \in (IF mode = "Normal" THEN FriendsInputs ELSE {<<>>})
    /\ bid \in BidInputs
    /\ opponentScore \in OpponentScoreInputs
    /\ mounted = TRUE
    /\ addLog = <<>>
    /\ events = MaxEvents - 2
    /\ InitOutside

SpecRound == InitRound /\ [][AddRound]_vars

----------------------------------------------------------------------------
(* The statistics on enumerated stores.  The store is drawn from sessions filled by
   earlier addRound calls, enough of them for several players to reach the
   3-round thresholds of bestHost and bestFriend; the component then handles
   further events. *)

\* The form values of an earlier round.
pastRound(hostIdx, friendIdx, bidArg, opponentScoreArg) ==
    [mode |-> "Normal", host |-> hostIdx, friends |-> <<friendIdx>>, bid |-> bidArg,
     opponentScore |-> opponentScoreArg]

repeated(x, n) == [k \in 1..n |-> x]

\* Earlier play: player index 0 hosts with friend index 2 and wins (opponents at 0)
\* or loses (a tie with the bid); player index 1 hosts with friend index 3 and wins
\* (No Bids, opponents at 150) or loses (opponents at 400); each kind of round was
\* played 0, 1 or 2 times.
RepeatInputs == 0..2

HistoryInputs ==
    {repeated(pastRound(0, 2, START_BID, 0), a)
        \o repeated(pastRound(0, 2, START_BID, START_BID), b)
        \o repeated(pastRound(1, 3, NO_BIDS_VALUE, START_BID), c)
        \o repeated(pastRound(1, 3, START_BID, 400), d) :
            a \in RepeatInputs, b \in RepeatInputs, c \in RepeatInputs, d \in RepeatInputs}

\* The session s after addRound was called with each of the form values in turn.
RECURSIVE played(_, _, _)
played(s, date, inputs) ==
    IF inputs = <<>> THEN s
    ELSE LET i == inputs[1]
         IN  played(addRoundUpdater(s, newRound(s, date, i.mode, s.players, i.host,
                                                i.friends, i.bid, i.opponentScore)),
                    date, Tail(inputs))

InitStats ==
    /\ today = 1
    /\ selectedDate = today
    /\ \E roster \in RosterInputs, history \in HistoryInputs :
        /\ gameData = [d \in {selectedDate} |->
                          played([defaultSession EXCEPT !.players = roster],
                                 selectedDate, history)]
        /\ addLog = [k \in 1..Len(history) |-> "added"]
    /\ mode = "Normal"
    /\ host = 0
    /\ friends = <<>>
    /\ bid = START_BID
    /\ opponentScore = 0
    /\ mounted = TRUE
    /\ events = MaxEvents - 2
    /\ InitOutside

NextStats ==
    \/ SetHost
    \/ ToggleFriend
    \/ SetOpponentScore
    \/ AddRound

SpecStats == InitStats /\ [][NextStats]_vars

----------------------------------------------------------------------------
(* Derived statistics: enhancedStats, totalsByPlayer, roleStats.  They are
   recomputed by every render from the store and the selected date. *)

\* A sequence given as a function on 1..n, as a tuple of its values.
arrayOf(f) == SubSeq(f, 1, Len(f))

\* arr.sort((a, b) => b[field] - a[field]): descending, stable (equal keys keep
\* their order).
sortDescBy(arr, field) ==
    LET pos == arrayOf([i \in 1..Len(arr) |->
                    Cardinality({j \in 1..Len(arr) : arr[j][field] > arr[i][field]})
                    + Cardinality({j \in 1..(i - 1) : arr[j][field] = arr[i][field]})
                    + 1])
    IN  arrayOf([k \in 1..Len(arr) |-> arr[CHOOSE i \in 1..Len(arr) : pos[i] = k]])

\* arr[0], kept as a sequence of at most one element: <<>> stands for undefined.
firstOf(arr) == SubSeq(arr, 1, Min(1, Len(arr)))

\* The keys of an object or Map filled name by name: each name once, in the order
\* of its first insertion.
RECURSIVE insertionOrder(_)
insertionOrder(names) ==
    IF names = <<>> THEN <<>>
    ELSE LET before == insertionOrder(SubSeq(names, 1, Len(names) - 1))
             last == names[Len(names)]
         IN  IF last \in Range(before) THEN before ELSE Append(before, last)

RECURSIVE sumSeq(_)
sumSeq(nums) == IF nums = <<>> THEN 0 ELSE nums[1] + sumSeq(Tail(nums))

\* Object.values(gameData).flatMap(s => s.rounds) over the dates in D.  The store's
\* keys are in insertion order, which is the order of the dates: a session is only
\* ever created for the current calendar date.
RECURSIVE flatMapRounds(_, _)
flatMapRounds(gd, D) ==
    IF D = {} THEN <<>>
    ELSE LET d == CHOOSE x \in D : \A y \in D : x <= y
         IN  gd[d].rounds \o flatMapRounds(gd, D \ {d})

allRoundsOf(gd) == flatMapRounds(gd, DOMAIN gd)

hostSideWon(r) == r.winner = "Host" \/ r.winner = "Host Team"

\* The number of pairs (round, position) at which the round's name sequence
\* field ("players" or "friends") holds name p.
timesNamed(rs, p, field) ==
    Cardinality({ki \in (1..Len(rs)) \X (1..6) :
                    /\ ki[2] <= Len(rs[ki[1]][field])
                    /\ rs[ki[1]][field][ki[2]] = p})

\* Lines 118-158: the counters of one roster name after the forEach over rs.
playerStatsOf(rs, p) ==
    [totalScore |-> sumSeq([k \in 1..Len(rs) |->
                        IF p \in DOMAIN rs[k].scores THEN rs[k].scores[p] ELSE 0]),
     gamesPlayed |-> timesNamed(rs, p, "players"),
     hosted |-> Cardinality({k \in 1..Len(rs) : rs[k].host = p}),
     hostWins |-> Cardinality({k \in 1..Len(rs) : rs[k].host = p /\ hostSideWon(rs[k])}),
     friendGames |-> timesNamed(rs, p, "friends"),
     friendWins |-> timesNamed(SelectSeq(rs, hostSideWon), p, "friends")]

\* Lines 168 and 171: games > 0 ? Math.round((wins / games) * 100) : 0
ratePercentMutantTruncates(wins, games) ==
    IF games > 0 THEN (wins * 100) \div games ELSE 0

ratePercent(wins, games) ==
    IF games > 0 THEN MathRound(wins * 100, games) ELSE 0

\* Lines 161-173: one entry per roster name, sorted by totalScore.
rankingsByScore(rs, players) ==
    LET names == insertionOrder(players)
        entry(p) ==
            LET stats == playerStatsOf(rs, p)
            IN  [name |-> p,
                 totalScore |-> MathRound(stats.totalScore, ScoreUnit),
                 gamesPlayed |-> stats.gamesPlayed,
                 hosted |-> stats.hosted,
                 hostWins |-> stats.hostWins,
                 hostRate |-> ratePercent(stats.hostWins, stats.hosted),
                 friendGames |-> stats.friendGames,
                 friendWins |-> stats.friendWins,
                 friendRate |-> ratePercent(stats.friendWins, stats.friendGames)]
    IN  sortDescBy(arrayOf([k \in 1..Len(names) |-> entry(names[k])]), "totalScore")

\* Lines 176-177: filter (a new array), sort by the rate, take the first.
bestOfMutantNoSort(rankings, gamesField, rateField) ==
    firstOf(SelectSeq(rankings, LAMBDA p : p[gamesField] >= 3))

bestOf(rankings, gamesField, rateField) ==
    firstOf(sortDescBy(SelectSeq(rankings, LAMBDA p : p[gamesField] >= 3), rateField))

\* enhancedStats for the store gd with date selected.  Line 178 sorts
\* playerRankings itself (Array.prototype.sort sorts in place), after bestHost and
\* bestFriend were taken from it, so the returned playerRankings is in the order of
\* that last sort.
enhancedStats(gd, date) ==
    LET rs == allRoundsOf(gd)
        byScore == rankingsByScore(rs, gd[date].players)
        byGames == sortDescBy(byScore, "gamesPlayed")
    IN  [totalRounds |-> Len(rs),
         playerRankings |-> byGames,
         bestHost |-> bestOf(byScore, "hosted", "hostRate"),
         bestFriend |-> bestOf(byScore, "friendGames", "friendRate"),
         mostGamesPlayed |-> firstOf(byGames)]

\* Lines 280-290, 704-714 and 734-745: the totals of the rounds rs by name, in a
\* Map (keys in order of first insertion), sorted by total.
totalsMap(rs) ==
    LET names == insertionOrder(arrayOf([ki \in 1..(6 * Len(rs)) |->
                    rs[((ki - 1) \div 6) + 1].players[((ki - 1) % 6) + 1]]))
    IN  arrayOf([n \in 1..Len(names) |->
            [player |-> names[n],
             total |-> sumSeq([k \in 1..Len(rs) |->
                          IF names[n] \in DOMAIN rs[k].scores
                              THEN rs[k].scores[names[n]] ELSE 0])]])

totalsOfMutantNoSort(rs) == totalsMap(rs)

totalsOf(rs) == sortDescBy(totalsMap(rs), "total")

totalsByPlayer(gd, date) == totalsOf(gd[date].rounds)

\* Lines 292-311, for a store on which roleStats does not throw.
roleStats(gd, date) ==
    LET rs == gd[date].rounds
    IN  [p \in Range(gd[date].players) |->
            [hosted |-> Cardinality({k \in 1..Len(rs) : rs[k].host = p}),
             hostWins |-> Cardinality({k \in 1..Len(rs) :
                                          rs[k].host = p /\ hostSideWon(rs[k])}),
             friendGames |-> timesNamed(rs, p, "friends"),
             friendWins |-> timesNamed(SelectSeq(rs, hostSideWon), p, "friends"),
             played |-> timesNamed(rs, p, "players")]]

----------------------------------------------------------------------------
(* addRound invoked twice from one rendered state.  Both calls run in the same
   closure: they read the same form values, selected date and roster, take the same
   way through the date lock and the validation, and each queues its updater with
   setGameData (line 66); React then runs the queued updaters in order, each on the
   state the one before returned. *)

\* The prev a queued updater receives: the latest state, not the rendered one.
queuedPrevMutantStale(rendered, latest) == rendered

queuedPrev(rendered, latest) == latest

AddRoundTwice ==
    /\ Handling
    /\ LET players == gameData[selectedDate].players
           friendIdxs == friendIdxsOf(friends, host)
           rendered == Existing(gameData, selectedDate)
           roundFor(s) == newRound(s, selectedDate, mode, players, host, friendIdxs,
                                   bid, opponentScore)
           first == addRoundUpdater(rendered, roundFor(rendered))
           prev == queuedPrev(rendered, first)
           second == addRoundUpdater(prev, roundFor(prev))
       IN  IF dateLocked(selectedDate, todayLabel)
              THEN /\ addLog' = addLog \o <<"locked", "locked">>
                   /\ UNCHANGED <<gameData, formVars>>
           ELSE IF invalidRound(mode, friendIdxs, bid, opponentScore)
              THEN /\ addLog' = addLog \o <<"invalid", "invalid">>
                   /\ UNCHANGED <<gameData, formVars>>
           ELSE /\ addLog' = addLog \o <<"added", "added">>
                /\ gameData' = updateCurrent(updateCurrent(gameData, selectedDate, first),
                                             selectedDate, second)
                /\ resetNewGameForm
    /\ UNCHANGED <<selectedDate, today, mounted>>

NextDouble ==
    \/ ClockTick
    \/ SelectDate
    \/ JumpToToday
    \/ ToggleFriend
    \/ SetOpponentScore
    \/ AddRound
    \/ AddRoundTwice

SpecDouble == Init /\ [][NextDouble]_vars

----------------------------------------------------------------------------
(* Reloading the page.  The store lives in useState only (lines 43-50): nothing
   writes it to localStorage or sends it to the Netlify functions, so a reload runs
   the initialisers again, whatever the page held and whether or not it had
   crashed. *)

Reload ==
    /\ events < MaxEvents
    /\ events' = events + 1
    /\ reloads' = reloads + 1
    /\ selectedDate' = todayLabel
    /\ gameData' = [d \in {todayLabel} |-> defaultSession]
    /\ mode' = "Normal"
    /\ host' = 0
    /\ friends' = <<>>
    /\ bid' = START_BID
    /\ opponentScore' = 0
    /\ mounted' = TRUE
    /\ UNCHANGED <<today, addLog, serverVars>>

NextReload ==
    \/ ClockTick
    \/ SelectDate
    \/ JumpToToday
    \/ SetOpponentScore
    \/ AddRound
    \/ Reload

SpecReload == Init /\ [][NextReload]_vars

----------------------------------------------------------------------------
(* The Netlify functions: netlify/functions/saveGame.js and the handler that
   loads the recent games.  A request body is a text; the model keeps of it
   whether it is malformed, the text null, or the text of an object, and the value
   an object's text parses to.  The database either
   completes a query or rejects it with an Error; which of the two is not in the
   handler's hands. *)

SyntaxErrorMessage == "Unexpected token"

TypeErrorMessage == "Cannot destructure"

DbErrorMessages == {"connection refused", "relation does not exist"}

DbOutcomes == {"completes"} \cup DbErrorMessages

\* Request bodies: two games, JSON null, and a text that is not JSON.
BodyInputs ==
    { [text |-> "object",
       value |-> [players |-> <<"P1", "P2">>, scores |-> <<100, 0>>, mode |-> "Normal"]],
      [text |-> "object",
       value |-> [players |-> <<"P1", "P2">>, scores |-> <<0, 400>>, mode |-> "1v5"]],
      [text |-> "null"],
      [text |-> "malformed"] }

\* JSON.stringify: the text of a value.
stringify(v) == [json |-> v]

\* Line 10: JSON.parse throws on a malformed text, and destructuring throws on null.
parseBody(body) ==
    IF body.text = "malformed" THEN [thrown |-> SyntaxErrorMessage]
    ELSE IF body.text = "null" THEN [thrown |-> TypeErrorMessage]
    ELSE [thrown |-> "none", value |-> body.value]

\* The row INSERT ... RETURNING * gives back.
insertedRow(table, v) ==
    [id |-> Len(table) + 1, players |-> stringify(v.players),
     scores |-> stringify(v.scores), mode |-> v.mode]

RecentLimit == 10

\* SELECT * FROM games ORDER BY played_at DESC LIMIT 10
recentRows(table) ==
    [k \in 1..Min(Len(table), RecentLimit) |-> table[Len(table) + 1 - k]]

\* The try/catch both handlers share: the value of the try block with 200, or
\* the message of what was thrown with 500.
tryCatchMutantSwallows(thrown, value) == [statusCode |-> 200, body |-> stringify(value)]

tryCatch(thrown, value) ==
    IF thrown = "none"
        THEN [statusCode |-> 200, body |-> stringify(value)]
        ELSE [statusCode |-> 500, body |-> stringify([error |-> thrown])]

\* saveGame.js, lines 8-30.
SaveGame ==
    /\ events < MaxEvents
    /\ events' = events + 1
    /\ \E body \in BodyInputs, db \in DbOutcomes :
        LET parsed == parseBody(body)
            row == insertedRow(gamesTable, parsed.value)
        IN  IF parsed.thrown # "none"
               THEN /\ request' = [handler |-> "saveGame", thrown |-> parsed.thrown,
                                   queries |-> 0, completed |-> FALSE]
                    /\ reply' = tryCatch(parsed.thrown, "none")
                    /\ UNCHANGED gamesTable
            ELSE IF db # "completes"
               THEN /\ request' = [handler |-> "saveGame", thrown |-> db,
                                   queries |-> 1, completed |-> FALSE]
                    /\ reply' = tryCatch(db, "none")
                    /\ UNCHANGED gamesTable
            ELSE /\ request' = [handler |-> "saveGame", thrown |-> "none",
                                queries |-> 1, completed |-> TRUE]
                 /\ reply' = tryCatch("none", row)
                 /\ gamesTable' = Append(gamesTable, row)
    /\ UNCHANGED <<gameData, selectedDate, today, formVars, mounted, addLog, reloads>>

\* The handler that loads the recent games, lines 8-25.
RecentGames ==
    /\ events < MaxEvents
    /\ events' = events + 1
    /\ \E db \in DbOutcomes :
        IF db # "completes"
           THEN /\ request' = [handler |-> "recentGames", thrown |-> db,
                               queries |-> 1, completed |-> FALSE]
                /\ reply' = tryCatch(db, "none")
           ELSE /\ request' = [handler |-> "recentGames", thrown |-> "none",
                               queries |-> 1, completed |-> TRUE]
                /\ reply' = tryCatch("none", recentRows(gamesTable))
    /\ UNCHANGED <<gameData, selectedDate, today, formVars, mounted, addLog, reloads,
                   gamesTable>>

NextServer ==
    \/ SaveGame
    \/ RecentGames

SpecServer == Init /\ [][NextServer]_vars

----------------------------------------------------------------------------
(* The leaderboards.  They depend on the store only, so they are followed along the
   handlers that shape it: the dates, the roster names, who hosts, how the round
   ends. *)

NextTotals ==
    \/ ClockTick
    \/ SelectDate
    \/ JumpToToday
    \/ Rename
    \/ SetHost
    \/ SetOpponentScore
    \/ AddRound

SpecTotals == Init /\ [][NextTotals]_vars

----------------------------------------------------------------------------
(* Vocabulary of the properties *)

RECURSIVE SumOver(_, _)
SumOver(f, S) ==
    IF S = {} THEN 0
    ELSE LET x == CHOOSE y \in S : TRUE IN f[x] + SumOver(f, S \ {x})

\* Every round record of the store.
AllRounds == UNION {Range(gameData[d].rounds) : d \in DOMAIN gameData}

TeamOf(r) == {r.host} \cup Range(r.friends)

OpponentNamesOf(r) == Range(r.players) \ TeamOf(r)

\* n is num/den rounded to the nearest integer, halves up (den > 0).
IsRounded(n, num, den) == 2 * den * n - den <= 2 * num /\ 2 * num < 2 * den * n + den

----------------------------------------------------------------------------
(* C1: in a Normal-mode round won by the host team, the scores of the host and the
   friends add up to exactly 400 - opponentScore, whatever the rounding of the
   single shares. *)
C1_ExactSum ==
    \A r \in AllRounds :
        (r.mode = "Normal" /\ r.winner = "Host Team")
            => SumOver(r.scores, TeamOf(r)) = Pts(400 - r.opponentScore)

(* C2: the host side wins exactly when opponentScore < bid; a tie goes to the
   opponents; the winner is labelled Host in 1v5 and Host Team in Normal mode. *)
C2_WinnerIffBelowBid ==
    \A r \in AllRounds :
        /\ r.opponentScore >= r.bid => r.winner = "Opponents"
        /\ (r.opponentScore < r.bid /\ r.mode = "1v5") => r.winner = "Host"
        /\ (r.opponentScore < r.bid /\ r.mode = "Normal") => r.winner = "Host Team"

\* A tie, lost by the host side.
C2_Witness ==
    \E r \in AllRounds : r.opponentScore = r.bid /\ r.winner = "Opponents"

(* C3: the Normal-mode winning split.  No friend: the host gets d = 400 -
   opponentScore.  One friend: the host gets round(0.75 d), the friend the rest.
   Two friends: the host gets round(0.5 d), the first friend round of half the rest,
   the second friend what remains.  Every other roster player gets 0. *)
C3_NormalWinShares ==
    \A r \in AllRounds :
        (r.mode = "Normal" /\ r.winner = "Host Team") =>
            LET d == 400 - r.opponentScore
                hostPts == r.scores[r.host] \div ScoreUnit
            IN  /\ r.scores[r.host] = Pts(hostPts)
                /\ \A p \in OpponentNamesOf(r) : r.scores[p] = 0
                /\ Len(r.friends) = 0 => hostPts = d
                /\ Len(r.friends) = 1 =>
                        /\ IsRounded(hostPts, 3 * d, 4)
                        /\ r.scores[r.friends[1]] = Pts(d - hostPts)
                /\ Len(r.friends) = 2 =>
                        LET f1 == r.scores[r.friends[1]] \div ScoreUnit
                        IN  /\ IsRounded(hostPts, d, 2)
                            /\ r.scores[r.friends[1]] = Pts(f1)
                            /\ IsRounded(f1, d - hostPts, 2)
                            /\ r.scores[r.friends[2]] = Pts(d - hostPts - f1)

(* C4: a 1v5 round with opponentScore < bid gives the host exactly 400 and the
   other five roster players 0, and its winner is Host. *)
C4_OneVsFiveHostWin ==
    \A r \in AllRounds :
        (r.mode = "1v5" /\ r.opponentScore < r.bid) =>
            /\ r.winner = "Host"
            /\ r.scores[r.host] = Pts(400)
            /\ Cardinality({i \in 1..Len(r.players) : r.scores[r.players[i]] = 0}) = 5

(* C5: in a round the host side loses, each opponent (roster player that is neither
   host nor friend) gets the unrounded opponentScore * 1.5 / (number of opponents),
   5 opponents in 1v5 mode; host and friends get 0; the round's total is exactly
   1.5 * opponentScore. *)
C5_OpponentsShare ==
    \A r \in AllRounds :
        r.opponentScore >= r.bid =>
            LET n == Cardinality(OpponentNamesOf(r))
            IN  /\ n = Len(r.players) - 1 - Len(r.friends)
                /\ r.mode = "1v5" => n = 5
                /\ \A p \in OpponentNamesOf(r) :
                        2 * n * r.scores[p] = Pts(3 * r.opponentScore)
                /\ \A p \in TeamOf(r) : r.scores[p] = 0
                /\ 2 * SumOver(r.scores, DOMAIN r.scores) = Pts(3 * r.opponentScore)

----------------------------------------------------------------------------
(* Vocabulary of the store properties *)

RoundsOf(gd, d) == IF d \in DOMAIN gd THEN gd[d].rounds ELSE <<>>

\* The step is an addRound call.
AddRoundCalled == Len(addLog') = Len(addLog) + 1

\* The validation rules as the specification words them, on the form's values.
FriendsAfterHostRemoved == SelectSeq(friends, LAMBDA i : i # host)

FailsValidation ==
    \/ mode = "Normal" /\ Len(FriendsAfterHostRemoved) > 2
    \/ bid < 80 /\ bid # 160
    \/ opponentScore < 0
    \/ opponentScore > 400

LastAdd == IF addLog = <<>> THEN "none" ELSE addLog[Len(addLog)]

(* C6: in every session the i-th stored round carries round number i, whatever
   rejected addRound calls (failed validation, locked date) came in between. *)
C6_RoundNumbering ==
    \A d \in DOMAIN gameData :
        \A i \in 1..Len(gameData[d].rounds) : gameData[d].rounds[i].round = i

\* Two rounds stored in one session, with a rejected call between the two accepted.
C6_Witness ==
    /\ \E d \in DOMAIN gameData :
        /\ Len(gameData[d].rounds) = 2
        /\ gameData[d].rounds[1].round = 1
        /\ gameData[d].rounds[2].round = 2
    /\ \E i, j, k \in 1..Len(addLog) :
        /\ i < j /\ j < k
        /\ addLog[i] = "added"
        /\ addLog[j] \in {"invalid", "locked"}
        /\ addLog[k] = "added"

(* C7: an addRound call whose inputs fail validation leaves the session store as
   it was: no round appended anywhere, counters and rosters unchanged. *)
C7_InvalidLeavesStore ==
    [][(AddRoundCalled /\ FailsValidation) => gameData' = gameData]_vars

\* A rejected call made on a store that already holds a round.
C7_Witness ==
    /\ LastAdd = "invalid"
    /\ FailsValidation
    /\ selectedDate = today
    /\ Len(gameData[selectedDate].rounds) = 1
    /\ gameData[selectedDate].currentRound = 2

(* C8: with today's date selected, addRound rejects exactly when the mode is Normal
   with more than 2 friends left once the host is removed, or bid < 80 and bid # 160,
   or opponentScore is outside 0..400; otherwise exactly one round is appended.
   Hence every stored round has bid >= 80 and 0 <= opponentScore <= 400. *)
C8_RejectsExactly ==
    /\ [][(AddRoundCalled /\ selectedDate = today) =>
            IF FailsValidation
                THEN gameData' = gameData
                ELSE /\ DOMAIN gameData' = DOMAIN gameData
                     /\ Len(gameData'[selectedDate].rounds)
                            = Len(gameData[selectedDate].rounds) + 1
                     /\ \A d \in DOMAIN gameData \ {selectedDate} :
                            gameData'[d] = gameData[d]]_vars
    /\ [](\A r \in AllRounds :
            r.bid >= 80 /\ 0 <= r.opponentScore /\ r.opponentScore <= 400)

\* The call with bid = 70 and everything else in order was rejected.
C8_Witness ==
    /\ LastAdd = "invalid"
    /\ selectedDate = today
    /\ bid = 70
    /\ Len(FriendsAfterHostRemoved) <= 2
    /\ opponentScore \in 0..400
    /\ gameData[selectedDate].rounds = <<>>

(* C9: a session gains a round only while its date label is the current calendar
   date: in every step, a session whose rounds grow is the session of today. *)
C9_OnlyTodayGrows ==
    [][\A d \in DOMAIN gameData' :
            Len(RoundsOf(gameData', d)) > Len(RoundsOf(gameData, d)) => d = today]_vars

\* After midnight a call on the old date was locked out, and the new date's session
\* took a round.
C9_Witness ==
    /\ today = 2
    /\ \E i \in 1..Len(addLog) : addLog[i] = "locked"
    /\ 2 \in DOMAIN gameData
    /\ Len(gameData[2].rounds) >= 1
    /\ \A r \in AllRounds : r.date = 2

(* C10: a rename replaces one slot of the selected session's roster and nothing
   else: the stored rounds (players snapshot, host, friends, scores keys) and the
   counter of that session, and every other session, stay as they were. *)
C10_RenameFrame ==
    [][\A d \in DOMAIN gameData :
            gameData'[d].players # gameData[d].players =>
                /\ d = selectedDate
                /\ gameData'[d].rounds = gameData[d].rounds
                /\ gameData'[d].currentRound = gameData[d].currentRound
                /\ \E i \in 1..Len(gameData[d].players) :
                        gameData'[d].players =
                            [gameData[d].players EXCEPT ![i] = gameData'[d].players[i]]
                /\ \A e \in DOMAIN gameData \ {d} : gameData'[e] = gameData[e]]_vars

\* A stored round still names a player by the name the slot had before a rename.
C10_Witness ==
    /\ mounted
    /\ \E d \in DOMAIN gameData :
        \E k \in 1..Len(gameData[d].rounds) :
            LET r == gameData[d].rounds[k]
            IN  /\ r.players # gameData[d].players
                /\ r.host = "Player 1"
                /\ At(gameData[d].players, 1) = "Ann"
                /\ At(r.players, 1) = "Player 1"
                /\ DOMAIN r.scores = Range(r.players)

----------------------------------------------------------------------------
(* C11: every round record has a scores map whose keys are exactly the 6 names of
   its players snapshot, one entry per roster slot (0 where nothing was received). *)
C11_ScoresKeys ==
    \A r \in AllRounds :
        /\ Len(r.players) = 6
        /\ DOMAIN r.scores = Range(r.players)
        /\ Cardinality(DOMAIN r.scores) = 6
        /\ \A p \in DOMAIN r.scores : r.scores[p] >= 0

(* C12: every session's roster has exactly 6 entries and its names are pairwise
   distinct, whatever names were typed into the name fields. *)
C12_RosterSixDistinct ==
    \A d \in DOMAIN gameData :
        /\ Len(gameData[d].players) = 6
        /\ \A i, j \in 1..Len(gameData[d].players) :
                i # j => gameData[d].players[i] # gameData[d].players[j]

(* C13: in every recorded round the friends sequence does not contain the round's
   host. *)
C13_FriendsExcludeHost ==
    \A r \in AllRounds : \A k \in 1..Len(r.friends) : r.friends[k] # r.host

(* C14: the friend count is bounded by the mode, in the form and in every recorded
   round: at most 2 friends in Normal mode, none in 1v5 mode. *)
C14_FriendCountByMode ==
    /\ mode = "Normal" => Len(friends) <= 2
    /\ mode = "1v5" => friends = <<>>
    /\ \A r \in AllRounds :
        /\ r.mode = "Normal" => Len(r.friends) <= 2
        /\ r.mode = "1v5" => r.friends = <<>>

\* A Normal round with two friends and a 1v5 round are both stored.
C14_Witness ==
    /\ \E r \in AllRounds : r.mode = "Normal" /\ Len(r.friends) = 2
    /\ \E r \in AllRounds : r.mode = "1v5" /\ r.friends = <<>>

----------------------------------------------------------------------------
(* Vocabulary of the statistics properties *)

\* What the render of the current state computes.
Stats == enhancedStats(gameData, selectedDate)

(* C15: wherever statistics are shown, the hosted counts of the reported players
   add up to the number of rounds they were computed over, and every such round is
   counted for exactly one reported player: for roleStats over the selected
   session's rounds, and for enhancedStats over the rounds of all sessions. *)
C15_HostedSumsToRounds ==
    mounted =>
        LET rs == roleStats(gameData, selectedDate)
            st == Stats
            pr == st.playerRankings
        IN  /\ SumOver([p \in DOMAIN rs |-> rs[p].hosted], DOMAIN rs)
                    = Len(gameData[selectedDate].rounds)
            /\ SumOver([k \in 1..Len(pr) |-> pr[k].hosted], 1..Len(pr)) = st.totalRounds
            /\ \A r \in AllRounds :
                    Cardinality({k \in 1..Len(pr) : pr[k].name = r.host}) = 1

(* C16: the playerRankings sequence that enhancedStats returns is in non-increasing
   order of totalScore. *)
C16_RankingsSortedByScore ==
    mounted =>
        LET pr == Stats.playerRankings
        IN  \A i, j \in 1..Len(pr) : i < j => pr[i].totalScore >= pr[j].totalScore

(* C17: bestHost is a ranked player with hosted >= 3 whose hostRate is maximal
   among the ranked players with hosted >= 3; bestFriend likewise with friendGames
   and friendRate; each is undefined exactly when no ranked player reaches its
   threshold. *)
C17_BestHostAndFriend ==
    LET st == Stats
        ranked == {st.playerRankings[k] : k \in 1..Len(st.playerRankings)}
        hosts == {p \in ranked : p.hosted >= 3}
        friendsOf3 == {p \in ranked : p.friendGames >= 3}
    IN  /\ st.bestHost = <<>> <=> hosts = {}
        /\ st.bestHost # <<>> =>
                /\ st.bestHost[1] \in hosts
                /\ \A q \in hosts : q.hostRate <= st.bestHost[1].hostRate
        /\ st.bestFriend = <<>> <=> friendsOf3 = {}
        /\ st.bestFriend # <<>> =>
                /\ st.bestFriend[1] \in friendsOf3
                /\ \A q \in friendsOf3 : q.friendRate <= st.bestFriend[1].friendRate

\* Two players reach each threshold, and in both cases the one with the higher
\* total score has the lower rate.
C17_Witness ==
    LET st == Stats
        ranked == {st.playerRankings[k] : k \in 1..Len(st.playerRankings)}
    IN  /\ \E p, q \in ranked :
            /\ p.hosted >= 3 /\ q.hosted >= 3
            /\ p.totalScore > q.totalScore /\ p.hostRate < q.hostRate
            /\ st.bestHost = <<q>>
        /\ \E p, q \in ranked :
            /\ p.friendGames >= 3 /\ q.friendGames >= 3
            /\ p.totalScore > q.totalScore /\ p.friendRate < q.friendRate
            /\ st.bestFriend = <<q>>

(* C18: for every ranked player, hostRate is hostWins / hosted * 100 rounded to the
   nearest integer when hosted > 0 and 0 otherwise, friendRate likewise from
   friendWins and friendGames; hostWins (friendWins) counts the rounds hosted
   (joined as a friend) whose winner is Host or Host Team, so hostWins <= hosted,
   friendWins <= friendGames and both rates lie in 0..100. *)
C18_Rates ==
    LET st == Stats
        rs == allRoundsOf(gameData)
        won == {k \in 1..Len(rs) : rs[k].winner \in {"Host", "Host Team"}}
        asFriend(p, K) ==
            Cardinality({ki \in K \X (1..2) :
                            /\ ki[2] <= Len(rs[ki[1]].friends)
                            /\ rs[ki[1]].friends[ki[2]] = p.name})
    IN  \A n \in 1..Len(st.playerRankings) :
            LET p == st.playerRankings[n]
            IN  /\ p.hostWins = Cardinality({k \in won : rs[k].host = p.name})
                /\ p.friendWins = asFriend(p, won)
                /\ p.hosted > 0 => IsRounded(p.hostRate, 100 * p.hostWins, p.hosted)
                /\ p.hosted = 0 => p.hostRate = 0
                /\ p.friendGames > 0 =>
                        IsRounded(p.friendRate, 100 * p.friendWins, p.friendGames)
                /\ p.friendGames = 0 => p.friendRate = 0
                /\ p.hostWins <= p.hosted
                /\ p.friendWins <= p.friendGames
                /\ p.hostRate \in 0..100
                /\ p.friendRate \in 0..100

\* Rates that are not whole percentages, and a player who never hosted.
C18_Witness ==
    LET st == Stats
        ranked == {st.playerRankings[k] : k \in 1..Len(st.playerRankings)}
    IN  /\ \E p \in ranked : p.hosted = 3 /\ p.hostWins = 2 /\ p.hostRate = 67
        /\ \E p \in ranked : p.friendGames = 3 /\ p.friendWins = 1 /\ p.friendRate = 33
        /\ \E p \in ranked : p.hosted = 0 /\ p.hostRate = 0

\* The scores recorded under a name in the rounds rs, added up.
ScoreSum(rs, name) ==
    SumOver([k \in 1..Len(rs) |->
                IF name \in DOMAIN rs[k].scores THEN rs[k].scores[name] ELSE 0],
            1..Len(rs))

\* rows is the leaderboard of the rounds rs: one row per name that is a scores key,
\* carrying the sum of that name's scores, rows in non-increasing order of total.
IsLeaderboard(rows, rs) ==
    LET keys == UNION {DOMAIN rs[k].scores : k \in 1..Len(rs)}
    IN  /\ {rows[n].player : n \in 1..Len(rows)} = keys
        /\ Len(rows) = Cardinality(keys)
        /\ \A n \in 1..Len(rows) : rows[n].total = ScoreSum(rs, rows[n].player)
        /\ \A m, n \in 1..Len(rows) : m < n => rows[m].total >= rows[n].total

(* C19: the leaderboard of the selected session, of each stored session and of all
   sessions combined has one row per name appearing as a scores key, with the sum
   of that name's scores as total, in non-increasing order of total; the all-time
   total of a name is the sum of its totals in the single sessions. *)
C19_Leaderboards ==
    LET allTime == totalsOf(allRoundsOf(gameData))
    IN  /\ IsLeaderboard(totalsByPlayer(gameData, selectedDate),
                         gameData[selectedDate].rounds)
        /\ \A d \in DOMAIN gameData : IsLeaderboard(totalsOf(gameData[d].rounds),
                                                    gameData[d].rounds)
        /\ IsLeaderboard(allTime, allRoundsOf(gameData))
        /\ \A n \in 1..Len(allTime) :
                allTime[n].total =
                    SumOver([d \in DOMAIN gameData |->
                                ScoreSum(gameData[d].rounds, allTime[n].player)],
                            DOMAIN gameData)

\* Two sessions hold rounds, a name scored in both, and one session's rows are not
\* in the order in which the names were first met.
C19_Witness ==
    /\ \E d, e \in DOMAIN gameData :
        /\ d # e
        /\ \E name \in Range(defaultPlayers) :
            /\ ScoreSum(gameData[d].rounds, name) > 0
            /\ ScoreSum(gameData[e].rounds, name) > 0
    /\ \E d \in DOMAIN gameData : totalsOf(gameData[d].rounds) # totalsMap(gameData[d].rounds)

----------------------------------------------------------------------------
\* The session the specification gives to a date met for the first time.
FreshSession ==
    [players |-> <<"Player 1", "Player 2", "Player 3", "Player 4", "Player 5", "Player 6">>,
     rounds |-> <<>>,
     currentRound |-> 1]

\* gd extended by session s for date d, every other session as it was.
IsExtension(gd2, gd, d, s) ==
    /\ DOMAIN gd2 = DOMAIN gd \cup {d}
    /\ gd2[d] = s
    /\ \A e \in DOMAIN gd : gd2[e] = gd[e]

(* C20: reading or updating the session of a date the store does not hold yields,
   and stores, the default session (roster Player 1..Player 6, no rounds, counter 1)
   or the update of it, and leaves every existing session unchanged; no step
   removes a session from the store. *)
C20_LazySessions ==
    /\ [][/\ DOMAIN gameData \subseteq DOMAIN gameData'
          /\ \A d \in DOMAIN gameData' \ DOMAIN gameData :
                IsExtension(gameData', gameData, d, FreshSession)]_vars
    /\ [](\A d \in Days \ DOMAIN gameData :
            /\ IsExtension(getCurrent(gameData, d), gameData, d, FreshSession)
            /\ Existing(gameData, d) = FreshSession
            /\ \A idx \in RenameIdxInputs, name \in NameInputs :
                IsExtension(updateCurrent(gameData, d,
                                onRenameUpdater(Existing(gameData, d), idx, name)),
                            gameData, d,
                            [FreshSession EXCEPT !.players[idx + 1] = name]))

\* The session of day 2 was created by the render after "Today", next to a session
\* of day 1 that holds a renamed slot and a round.
C20_Witness ==
    /\ selectedDate = 2
    /\ DOMAIN gameData = {1, 2}
    /\ gameData[2] = FreshSession
    /\ At(gameData[1].players, 0) = "Ann"
    /\ Len(gameData[1].rounds) = 1

----------------------------------------------------------------------------
(* C21: whenever the form's mode is 1v5 the bid is 200, and every round recorded in
   1v5 mode has bid = 200. *)
C21_OneVsFiveBid ==
    /\ mode = "1v5" => bid = 200
    /\ \A r \in AllRounds : r.mode = "1v5" => r.bid = 200

\* A 1v5 round is stored and, after the form reset that followed it, the form is in
\* 1v5 mode again.
C21_Witness ==
    /\ mode = "1v5"
    /\ bid = 200
    /\ \E r \in AllRounds : r.mode = "1v5" /\ r.bid = 200

(* C22: in Normal mode the bid is either the No Bids value 160 or a multiple of 5
   in 80..150, in the form and in every recorded Normal round. *)
C22_NormalBidRange ==
    LET legal(b) == b = 160 \/ (b \in 80..150 /\ b % 5 = 0)
    IN  /\ mode = "Normal" => legal(bid)
        /\ \A r \in AllRounds : r.mode = "Normal" => legal(r.bid)

(* C25: in every round addRound records, the opponents (the roster slots whose name
   is neither the host's nor a friend's) are never none: 5 minus the number of
   friends, hence at least 3, in Normal mode, and exactly 5 in 1v5 mode. *)
C25_OpponentsNotEmpty ==
    \A r \in AllRounds :
        LET n == Len(SelectSeq(r.players, LAMBDA p : p \notin TeamOf(r)))
        IN  /\ n >= 1
            /\ r.mode = "Normal" => (n = 5 - Len(r.friends) /\ n >= 3)
            /\ r.mode = "1v5" => n = 5

(* C26: every name that occurs in a stored round of the selected session (players
   snapshot, host, friends) is a name of the session's current roster, so roleStats
   finds an entry for it, also after a rename that follows recorded rounds. *)
C26_RoleStatsKeys ==
    \A k \in 1..Len(gameData[selectedDate].rounds) :
        LET r == gameData[selectedDate].rounds[k]
        IN  \A p \in Range(r.players) \cup {r.host} \cup Range(r.friends) :
                \E i \in 1..Len(gameData[selectedDate].players) :
                    gameData[selectedDate].players[i] = p

\* The step is an addRound call that was accepted.
AddRoundAccepted == AddRoundCalled /\ addLog'[Len(addLog')] = "added"

(* C27: an accepted addRound appends exactly one round at the end of the selected
   session's rounds and adds 1 to its counter; the earlier rounds keep position and
   content, the roster is unchanged, every other session is unchanged, and the new
   round's players field is the session's roster. *)
C27_AcceptedAddFrame ==
    [][AddRoundAccepted =>
        LET old == gameData[selectedDate]
            new == gameData'[selectedDate]
        IN  /\ DOMAIN gameData' = DOMAIN gameData
            /\ Len(new.rounds) = Len(old.rounds) + 1
            /\ \A k \in 1..Len(old.rounds) : new.rounds[k] = old.rounds[k]
            /\ new.currentRound = old.currentRound + 1
            /\ new.players = old.players
            /\ new.rounds[Len(new.rounds)].players = old.players
            /\ \A e \in DOMAIN gameData \ {selectedDate} : gameData'[e] = gameData[e]]_vars

\* A round was just appended behind an earlier one, next to another session that
\* holds a round.
C27_Witness ==
    /\ LastAdd = "added"
    /\ selectedDate = 2
    /\ DOMAIN gameData = {1, 2}
    /\ Len(gameData[2].rounds) = 2
    /\ Len(gameData[1].rounds) = 1
    /\ mode = "Normal" /\ friends = <<>> /\ bid = START_BID /\ opponentScore = 0

(* C29: once the selected date is made the current date, a session for it exists
   (the default one if the store had none) and the older sessions are as they
   were; and an addRound call with valid inputs made while the current date is
   selected is accepted: it appends to that session a round numbered with the
   session's number of rounds plus 1 and leaves the other sessions' rounds alone. *)
C29_TodayReenables ==
    /\ [][(selectedDate' # selectedDate /\ selectedDate' = today') =>
            /\ selectedDate' \in DOMAIN gameData'
            /\ selectedDate' \notin DOMAIN gameData =>
                    gameData'[selectedDate'] = FreshSession
            /\ \A d \in DOMAIN gameData :
                    d \in DOMAIN gameData' /\ gameData'[d] = gameData[d]]_vars
    /\ [][(AddRoundCalled /\ selectedDate = today /\ ~FailsValidation) =>
            LET old == gameData[selectedDate].rounds
                new == gameData'[selectedDate].rounds
            IN  /\ addLog'[Len(addLog')] = "added"
                /\ Len(new) = Len(old) + 1
                /\ new[Len(new)].round = Len(old) + 1
                /\ \A d \in DOMAIN gameData \ {selectedDate} :
                        gameData'[d].rounds = gameData[d].rounds]_vars

\* The date changed with a round stored, a call on the old date was locked out,
\* and after "Today" the new session took its round number 1.
C29_Witness ==
    /\ today = 2
    /\ selectedDate = 2
    /\ \E i \in 1..Len(addLog) : addLog[i] = "locked"
    /\ LastAdd = "added"
    /\ DOMAIN gameData = {1, 2}
    /\ Len(gameData[1].rounds) = 1
    /\ Len(gameData[2].rounds) = 1
    /\ gameData[2].rounds[1].round = 1
    /\ gameData[2].players = FreshSession.players

(* C30: in a Normal-mode round won by the host team every share is a non-negative
   whole number of points, the host's share is at least each friend's share, and
   with two friends the first friend's share is the second's or one point more. *)
C30_ShareOrder ==
    \A r \in AllRounds :
        (r.mode = "Normal" /\ r.winner = "Host Team") =>
            /\ \A p \in TeamOf(r) : r.scores[p] >= 0 /\ r.scores[p] % ScoreUnit = 0
            /\ \A k \in 1..Len(r.friends) : r.scores[r.host] >= r.scores[r.friends[k]]
            /\ Len(r.friends) = 2 =>
                    /\ r.scores[r.friends[1]] >= r.scores[r.friends[2]]
                    /\ r.scores[r.friends[1]] - r.scores[r.friends[2]] <= Pts(1)

(* C28: two addRound calls made from one rendered state, both accepted, leave two
   new rounds with the consecutive numbers counter and counter + 1 at the end of
   the session, and the counter advanced by 2; in every session the stored round
   numbers stay 1, 2, 3, ... with none duplicated or skipped. *)
C28_DoubleAddRound ==
    /\ [][(Len(addLog') = Len(addLog) + 2 /\ addLog'[Len(addLog')] = "added") =>
            LET old == gameData[selectedDate]
                new == gameData'[selectedDate]
                n == Len(old.rounds)
            IN  /\ Len(new.rounds) = n + 2
                /\ \A k \in 1..n : new.rounds[k] = old.rounds[k]
                /\ new.rounds[n + 1].round = old.currentRound
                /\ new.rounds[n + 2].round = old.currentRound + 1
                /\ new.currentRound = old.currentRound + 2]_vars
    /\ [](\A d \in DOMAIN gameData :
            /\ gameData[d].currentRound = Len(gameData[d].rounds) + 1
            /\ \A i, j \in 1..Len(gameData[d].rounds) :
                    i # j => gameData[d].rounds[i].round # gameData[d].rounds[j].round)

\* One accepted single call and one accepted double call: three rounds after two
\* events.
C28_Witness ==
    /\ events = 2
    /\ addLog = <<"added", "added", "added">>
    /\ Len(gameData[selectedDate].rounds) = 3
    /\ gameData[selectedDate].rounds[3].round = 3
    /\ gameData[selectedDate].currentRound = 4

(* C23: a function answers 200 only when its database query completed; whenever
   something was thrown while the request was served (the body did not parse, or
   the database rejected the query) it answers 500 with the thrown error's message
   in the body; a request runs at most one query, and a request whose query did
   not complete leaves the table as it was. *)
C23_NoFalseSuccess ==
    /\ [](/\ reply.statusCode = 200 => request.completed
          /\ request.thrown # "none" =>
                /\ reply.statusCode = 500
                /\ reply.body = stringify([error |-> request.thrown])
          /\ request.handler # "none" => reply.statusCode \in {200, 500}
          /\ request.queries <= 1)
    /\ [][~request'.completed => gamesTable' = gamesTable]_vars

\* After one game was saved, a saveGame request with an unparsable body was
\* answered with 500 and the parser's message.
C23_Witness ==
    /\ Len(gamesTable) = 1
    /\ request.handler = "saveGame"
    /\ request.thrown = SyntaxErrorMessage
    /\ request.queries = 0
    /\ reply = [statusCode |-> 500, body |-> stringify([error |-> SyntaxErrorMessage])]

(* C24: a reload of the page keeps every session that has rounds, and every
   round recorded in it before the reload. *)
C24_ReloadKeepsHistory ==
    [][reloads' # reloads =>
        \A d \in DOMAIN gameData :
            Len(gameData[d].rounds) > 0 =>
                /\ d \in DOMAIN gameData'
                /\ gameData'[d].rounds = gameData[d].rounds]_vars

====
